---- MODULE Spec2Model ----
(***************************************************************************)
(* The FoxImage component (final version, src/unnamed/part_001 lines       *)
(* 39-76): two pieces of React state (image, loading), the operation       *)
(* fetchNewImage with its promise chain, the mount effect and the button.  *)
(*                                                                         *)
(* One request of fetchNewImage moves through                              *)
(*   "fetching"  fetch(API_URL) is pending                                 *)
(*   "parsing"   the first .then ran, response.json() is pending           *)
(*   "succeeded" the second .then ran (setImage, setLoading(false))        *)
(*   "failed"    the .catch ran (console.log(error))                       *)
(* Promise reactions run as microtasks, so a rejection and the .catch that *)
(* receives it are one step; user events and other responses interleave    *)
(* only where the chain waits for I/O (the fetch, the body read).          *)
(***************************************************************************)
EXTENDS Naturals, Sequences, FiniteSets

VARIABLES
    image,      \* useState(foxLogo)
    loading,    \* useState(true)
    mounted,    \* the first render was committed and its effect ran
    renders,    \* number of renders of FoxImage so far
    dom,        \* the output of the last render
    reqs,       \* the calls of fetch(API_URL), in the order they were issued
    log,        \* what console.log received, in order
    succeeded,  \* the requests whose success callback ran, in that order
    clicks      \* activations of the button so far

vars == <<image, loading, mounted, renders, dom, reqs, log, succeeded, clicks>>

-----------------------------------------------------------------------------
(* Bounds *)

MaxRequests == 3

-----------------------------------------------------------------------------
(* Values *)

foxLogo == "foxLogo"

\* data.image of a JSON object that has no image field
Undefined == "undefined"

\* the image URLs the endpoint may answer with
Images == {"a", "b"}

\* What response.json() reads: a JSON object (with or without an image
\* field), the JSON value null, or text that is not JSON.
Bodies ==
    [shape : {"object"}, image : Images \cup {Undefined}]
        \cup {[shape |-> "null", image |-> Undefined],
              [shape |-> "invalid", image |-> Undefined]}

NoBody == [shape |-> "none", image |-> Undefined]

\* useState initial values
useStateImage == foxLogo

useStateLoadingFalse == FALSE

useStateLoading == TRUE

\* the dependency array of useEffect(fetchNewImage, [])
EffectDeps == <<>>

-----------------------------------------------------------------------------
(* The component's state as the handlers see it *)

State == [image |-> image, loading |-> loading, reqs |-> reqs, log |-> log]

NewRequest(trigger, img) ==
    [trigger      |-> trigger,   \* "mount" or "click"
     pc           |-> "fetching",
     body         |-> NoBody,
     imageAtIssue |-> img,       \* history: image when the request was issued
     overwritten  |-> FALSE,     \* history: another request's success ran since
     succeededAtIssue |-> Len(succeeded)]  \* history: successes before the issue

\* function fetchNewImage() { setLoading(true); fetch(API_URL)... }
fetchNewImageResetsImage(s, trigger) ==
    [s EXCEPT !.image = foxLogo, !.loading = TRUE,
              !.reqs = Append(@, NewRequest(trigger, s.image))]

fetchNewImageUnlessLoading(s, trigger) ==
    IF s.loading
    THEN s
    ELSE [s EXCEPT !.loading = TRUE,
                   !.reqs = Append(@, NewRequest(trigger, s.image))]

fetchNewImage(s, trigger) ==
    [s EXCEPT !.loading = TRUE,
              !.reqs = Append(@, NewRequest(trigger, s.image))]

\* .then(data => { setImage(data.image); setLoading(false); })
onDataKeepsLoading(s, data) == [s EXCEPT !.image = data.image]

onDataOnlyWhileLoading(s, data) ==
    IF s.loading THEN [s EXCEPT !.image = data.image, !.loading = FALSE] ELSE s

onDataTogglesLoading(s, data) ==
    [s EXCEPT !.image = data.image, !.loading = ~s.loading]

onData(s, data) == [s EXCEPT !.image = data.image, !.loading = FALSE]

\* .catch(error => console.log(error))
onErrorResetsLoading(s, error) ==
    [s EXCEPT !.loading = FALSE, !.log = Append(@, error)]

onErrorResetsImage(s, error) ==
    [s EXCEPT !.image = foxLogo, !.log = Append(@, error)]

onErrorSilent(s, error) == s

onError(s, error) == [s EXCEPT !.log = Append(@, error)]

\* the JSX returned by FoxImage
RenderShowsWhileLoading(img, ld) ==
    [loadingMsg |-> IF ld THEN TRUE ELSE FALSE,
     src        |-> img,
     button     |-> TRUE]

Render(img, ld) ==
    [loadingMsg |-> IF ld THEN FALSE ELSE TRUE,  \* loading ? "" : <p> Loading...</p>
     src        |-> img,
     button     |-> TRUE]

\* useEffect(fetchNewImage, []): the effect runs after the first render, and
\* after a later render only when a dependency changed.
ShouldRunEffectEveryRender(isMount, prevDeps, nextDeps) == TRUE

ShouldRunEffect(isMount, prevDeps, nextDeps) ==
    isMount \/ prevDeps # nextDeps

Settle(rs, r, pc) == [rs EXCEPT ![r].pc = pc]

\* history: a success of request r overwrote what every other outstanding
\* request saw when it was issued
MarkOverwritten(rs, r) ==
    [i \in DOMAIN rs |->
        IF i # r /\ rs[i].pc \in {"fetching", "parsing"}
        THEN [rs[i] EXCEPT !.overwritten = TRUE]
        ELSE rs[i]]

\* React renders again when a handler changed the state; the render runs the
\* effect when ShouldRunEffect says so.
AfterRender(s) ==
    IF (s.image # image \/ s.loading # loading)
       /\ ShouldRunEffect(FALSE, EffectDeps, EffectDeps)
       /\ Len(s.reqs) < MaxRequests
    THEN fetchNewImage(s, "mount")
    ELSE s

Commit(s) ==
    LET t == AfterRender(s) IN
    /\ image' = t.image
    /\ loading' = t.loading
    /\ reqs' = t.reqs
    /\ log' = t.log
    /\ renders' = IF s.image # image \/ s.loading # loading
                  THEN renders + 1 ELSE renders
    /\ dom' = Render(t.image, t.loading)

-----------------------------------------------------------------------------
(* Initial state and the steps *)

Init ==
    /\ image = useStateImage
    /\ loading = useStateLoading
    /\ mounted = FALSE
    /\ renders = 0
    /\ dom = Render(useStateImage, useStateLoading)
    /\ reqs = <<>>
    /\ log = <<>>
    /\ succeeded = <<>>
    /\ clicks = 0

\* The first render is committed and useEffect(fetchNewImage, []) runs.
Mount ==
    /\ ~mounted
    /\ mounted' = TRUE
    /\ LET s == IF ShouldRunEffect(TRUE, EffectDeps, EffectDeps)
                THEN fetchNewImage(State, "mount") ELSE State
       IN /\ image' = s.image
          /\ loading' = s.loading
          /\ reqs' = s.reqs
          /\ log' = s.log
          /\ renders' = IF s.image # image \/ s.loading # loading THEN 2 ELSE 1
          /\ dom' = Render(s.image, s.loading)
    /\ UNCHANGED <<succeeded, clicks>>

\* <button onClick = {fetchNewImage} >
Click ==
    /\ mounted
    /\ Len(reqs) < MaxRequests
    /\ clicks' = clicks + 1
    /\ Commit(fetchNewImage(State, "click"))
    /\ UNCHANGED <<mounted, succeeded>>

\* fetch(API_URL) rejects (the request could not complete): both .then are
\* skipped and the .catch logs the error.
FetchRejects(r) ==
    /\ reqs[r].pc = "fetching"
    /\ Commit(onError([State EXCEPT !.reqs = Settle(@, r, "failed")],
                      "TypeError: Failed to fetch"))
    /\ UNCHANGED <<mounted, succeeded, clicks>>

\* fetch(API_URL) resolves with a response:
\*   if (!response.ok) { throw new Error("Failed to fetch image"); }
\*   return response.json();
ResponseArrives(r) ==
    /\ reqs[r].pc = "fetching"
    /\ \E ok \in BOOLEAN :
         IF ~ok
         THEN Commit(onError([State EXCEPT !.reqs = Settle(@, r, "failed")],
                             "Error: Failed to fetch image"))
         ELSE \E body \in Bodies :
                Commit([State EXCEPT !.reqs[r].pc = "parsing",
                                     !.reqs[r].body = body])
    /\ UNCHANGED <<mounted, succeeded, clicks>>

\* response.json() rejects: the body is not JSON.
JsonRejects(r) ==
    /\ reqs[r].pc = "parsing"
    /\ reqs[r].body.shape = "invalid"
    /\ Commit(onError([State EXCEPT !.reqs = Settle(@, r, "failed")],
                      "SyntaxError"))
    /\ UNCHANGED <<mounted, succeeded, clicks>>

\* response.json() resolves with null: data.image throws inside the second
\* .then, before setImage is called, and the .catch logs the TypeError.
DataThrows(r) ==
    /\ reqs[r].pc = "parsing"
    /\ reqs[r].body.shape = "null"
    /\ Commit(onError([State EXCEPT !.reqs = Settle(@, r, "failed")],
                      "TypeError: data is null"))
    /\ UNCHANGED <<mounted, succeeded, clicks>>

\* response.json() resolves with an object: the second .then runs.
DataArrives(r) ==
    /\ reqs[r].pc = "parsing"
    /\ reqs[r].body.shape = "object"
    /\ succeeded' = Append(succeeded, r)
    /\ Commit(onData([State EXCEPT
                        !.reqs = MarkOverwritten(Settle(@, r, "succeeded"), r)],
                     reqs[r].body))
    /\ UNCHANGED <<mounted, clicks>>

Next ==
    \/ Mount
    \/ Click
    \/ \E r \in DOMAIN reqs : FetchRejects(r)
    \/ \E r \in DOMAIN reqs : ResponseArrives(r)
    \/ \E r \in DOMAIN reqs : JsonRejects(r)
    \/ \E r \in DOMAIN reqs : DataThrows(r)
    \/ \E r \in DOMAIN reqs : DataArrives(r)

Spec == Init /\ [][Next]_vars

\* the next step of request r's promise chain, whichever it is
Settles(r) ==
    /\ r \in DOMAIN reqs
    /\ \/ FetchRejects(r)
       \/ ResponseArrives(r)
       \/ JsonRejects(r)
       \/ DataThrows(r)
       \/ DataArrives(r)

\* React runs the mount effect after the first commit, and every call of
\* fetch and of response.json() settles: the promise reactions then run.
\* Nothing obliges the user to click.
Fairness ==
    /\ WF_vars(Mount)
    /\ \A r \in 1..MaxRequests : WF_vars(Settles(r))

FairSpec == Spec /\ Fairness

-----------------------------------------------------------------------------
(* Vocabulary of the properties *)

Outstanding == {r \in DOMAIN reqs : reqs[r].pc \in {"fetching", "parsing"}}

Failed == {r \in DOMAIN reqs : reqs[r].pc = "failed"}

\* no response of any request was processed yet
NoResponseYet == \A r \in DOMAIN reqs : reqs[r].pc = "fetching"

\* this step is the success callback of request r
SuccessStep(r) ==
    /\ r \in DOMAIN reqs
    /\ reqs[r].pc = "parsing"
    /\ reqs'[r].pc = "succeeded"

\* this step is the failure handling of request r
FailureStep(r) ==
    /\ r \in DOMAIN reqs
    /\ reqs[r].pc \in {"fetching", "parsing"}
    /\ reqs'[r].pc = "failed"

\* this step is an activation of the button
ClickStep == clicks' = clicks + 1

Requests == 1..MaxRequests

Last(s) == s[Len(s)]

MountRequests == {r \in DOMAIN reqs : reqs[r].trigger = "mount"}

\* a success callback ran after the most recent trigger
SuccessSinceLastTrigger ==
    reqs # <<>> /\ Len(succeeded) > Last(reqs).succeededAtIssue

-----------------------------------------------------------------------------
(* C1: for every request that resolves successfully with payload image = X, *)
(* in the state right after its success callback image equals X and loading *)
(* is false, whatever else is outstanding.                                  *)
C1_SuccessSetsImageAndClearsLoading ==
    [][\A r \in Requests :
         SuccessStep(r) =>
            /\ image' = reqs[r].body.image
            /\ loading' = FALSE]_vars

\* a success callback ran while another request was still outstanding
C1_Witness ==
    /\ succeeded # <<>>
    /\ Outstanding # {}
    /\ image = reqs[Last(succeeded)].body.image
    /\ image \in Images
    /\ ~loading

(* C2: in every reachable state loading is true if and only if at least    *)
(* one request is outstanding.  Stated from the mount on, where the first   *)
(* request exists.                                                          *)
C2_LoadingIffOutstanding ==
    mounted => (loading <=> Outstanding # {})

(* C3: from the mount until the first response of any request is           *)
(* processed, image is the bundled default asset and loading is true.      *)
C3_DefaultUntilFirstResponse ==
    NoResponseYet => (image = foxLogo /\ loading = TRUE)

\* mounted, the button used, and still no response processed
C3_Witness ==
    /\ mounted
    /\ Len(reqs) >= 2
    /\ NoResponseYet

(* C4: the step that handles a failed request (network failure, bad        *)
(* status, parse failure) leaves image and loading as they were, renders   *)
(* nothing new, and adds exactly one entry to the diagnostic log.          *)
C4_FailureStepFrame ==
    [][\A r \in Requests :
         FailureStep(r) =>
            /\ image' = image
            /\ loading' = loading
            /\ dom' = dom
            /\ Len(log') = Len(log) + 1
            /\ SubSeq(log', 1, Len(log)) = log]_vars

\* one failure of each kind was handled
C4_Witness ==
    /\ Cardinality(Failed) = 3
    /\ {log[i] : i \in DOMAIN log} =
          {"TypeError: Failed to fetch", "Error: Failed to fetch image",
           "SyntaxError"}

(* C5 as claimed: after the failure of a request is handled, image equals  *)
(* the value it had when that request was issued, for any interleaving.    *)
C5_FailureKeepsPreRequestImage ==
    [][\A r \in Requests :
         FailureStep(r) => image' = reqs[r].imageAtIssue]_vars

(* C5 amended: after the failure of a request is handled, image equals the *)
(* value it had just before the failure was handled; that is the value it  *)
(* had when the request was issued whenever no other request's success     *)
(* callback ran between the issue and the failure.                         *)
C5_FailureKeepsImage ==
    [][\A r \in Requests :
         FailureStep(r) =>
            /\ image' = image
            /\ (~reqs[r].overwritten => image' = reqs[r].imageAtIssue)]_vars

\* a request failed after an overlapping success had replaced the image it
\* was issued under
C5_Witness ==
    \E r \in Failed :
        /\ reqs[r].overwritten
        /\ image # reqs[r].imageAtIssue
        /\ Outstanding = {}

(* C6 as claimed: after the failure of a request is handled loading is     *)
(* true.                                                                   *)
C6_FailureLeavesLoadingTrue ==
    [][\A r \in Requests : FailureStep(r) => loading' = TRUE]_vars

(* C6 amended: after the failure of a request is handled loading has the   *)
(* value it had just before, which is true exactly when no success         *)
(* callback ran since the most recent trigger; and once true, loading      *)
(* stays true until some request resolves successfully.                    *)
C6_FailureKeepsLoading ==
    [][/\ \A r \in Requests :
            FailureStep(r) =>
               /\ loading' = loading
               /\ loading' = ~SuccessSinceLastTrigger
       /\ (loading /\ ~loading') => \E r \in Requests : SuccessStep(r)]_vars

\* a failure was handled after an overlapping request's success had set
\* loading to false, and nothing is outstanding any more
C6_Witness ==
    /\ \E r \in Failed : reqs[r].overwritten
    /\ ~loading
    /\ Outstanding = {}

(* C7 as claimed: the manual trigger does not change image, and image does *)
(* not change between the activation and the resolution of the request the *)
(* activation issued.                                                      *)
C7_ImageFixedWhileClickOutstanding ==
    \A r \in Outstanding :
        reqs[r].trigger = "click" => image = reqs[r].imageAtIssue

(* C7 amended: the manual trigger does not change image at the trigger     *)
(* step, and between the activation and the resolution of the request it   *)
(* issued image changes only when the success callback of another request  *)
(* runs.                                                                   *)
C7_ImageFixedUnlessOverwritten ==
    [][/\ ClickStep => image' = image
       /\ \A r \in Requests :
            (/\ r \in DOMAIN reqs'
             /\ reqs'[r].trigger = "click"
             /\ reqs'[r].pc \in {"fetching", "parsing"}
             /\ ~reqs'[r].overwritten)
            => image' = reqs'[r].imageAtIssue]_vars

\* the button was used while a fetched image was shown, its request got a
\* response and is not resolved yet
C7_Witness ==
    \E r \in Outstanding :
        /\ reqs[r].trigger = "click"
        /\ reqs[r].pc = "parsing"
        /\ ~reqs[r].overwritten
        /\ reqs[r].imageAtIssue \in Images
        /\ image = reqs[r].imageAtIssue

(* C8: image is the image of whichever successful response was processed   *)
(* last, in every state and so after all overlapping requests resolved,    *)
(* whatever the order the requests were issued in.                         *)
C8_LastProcessedSuccessWins ==
    succeeded # <<>> => image = reqs[Last(succeeded)].body.image

\* all resolved, and the response of an earlier-issued request overwrote the
\* image set by a later-issued request
C8_Witness ==
    /\ Outstanding = {}
    /\ Len(succeeded) >= 2
    /\ Last(succeeded) < succeeded[Len(succeeded) - 1]
    /\ reqs[Last(succeeded)].body.image
          # reqs[succeeded[Len(succeeded) - 1]].body.image
    /\ image = reqs[Last(succeeded)].body.image

(* C9: the mount trigger invokes fetchNewImage exactly once per component  *)
(* instance; no later render, those caused by setImage and setLoading      *)
(* included, issues another automatic request.                             *)
C9_OneAutomaticRequest ==
    Cardinality(MountRequests) = IF mounted THEN 1 ELSE 0

\* the component rendered again several times after state changes
C9_Witness ==
    /\ mounted
    /\ renders >= 4
    /\ succeeded # <<>>
    /\ Cardinality(MountRequests) = 1

(* C10: the rendered output shows "Loading..." while a request is waiting  *)
(* for the API and stops showing it once the request completed.            *)
C10_LoadingMessageWhileWaiting ==
    mounted =>
        /\ Outstanding # {} => dom.loadingMsg = TRUE
        /\ Outstanding = {} => dom.loadingMsg = FALSE

\* the values the data model allows for the image reference: a URI string
URIs == {foxLogo} \cup Images

C12_MissingImageFieldIsAnError ==
    [][\A r \in Requests :
         (/\ r \in DOMAIN reqs
          /\ reqs[r].pc = "parsing"
          /\ reqs[r].body.shape = "object"
          /\ reqs[r].body.image = Undefined
          /\ reqs'[r].pc # "parsing")
         => /\ reqs'[r].pc = "failed"
            /\ image' = image
            /\ image' \in URIs
            /\ Len(log') = Len(log) + 1]_vars

C14_RepeatedSuccessIdempotent ==
    [][\A r \in Requests :
         (/\ SuccessStep(r)
          /\ succeeded # <<>>
          /\ reqs[Last(succeeded)].body.image = reqs[r].body.image)
         => /\ image' = image
            /\ image' = reqs[r].body.image
            /\ loading' = FALSE
            /\ (~loading => dom' = dom /\ renders' = renders)]_vars

\* two consecutive successes carried the same image, the second processed
\* while loading was already false
C14_Witness ==
    /\ Len(succeeded) >= 2
    /\ reqs[Last(succeeded)].body.image \in Images
    /\ reqs[Last(succeeded)].body.image
          = reqs[succeeded[Len(succeeded) - 1]].body.image
    /\ reqs[Last(succeeded)].succeededAtIssue = Len(succeeded) - 2
    /\ Last(reqs).succeededAtIssue = Len(succeeded) - 2
    /\ image = reqs[Last(succeeded)].body.image
    /\ ~loading

(* C15: every trigger activation issues exactly one request and nothing    *)
(* else issues any: the number of requests ever issued is 1 (the mount)    *)
(* plus the number of manual activations; the button is rendered in every  *)
(* state, also while loading, so requests can overlap.                     *)
C15_OneRequestPerTrigger ==
    /\ Len(reqs) = (IF mounted THEN 1 ELSE 0) + clicks
    /\ dom.button = TRUE
    /\ \A r \in DOMAIN reqs : (reqs[r].trigger = "mount") = (r = 1)

\* the button was used twice while loading, after a failure and with more
\* than one request outstanding
C15_Witness ==
    /\ loading
    /\ clicks = 2
    /\ Failed # {}
    /\ Cardinality(Outstanding) > 1

(* C16: in every state in which no request is outstanding, loading is      *)
(* false if and only if some request resolved successfully after the most  *)
(* recent trigger.                                                         *)
C16_LoadingWhenQuiescent ==
    (mounted /\ Outstanding = {}) => (loading = ~SuccessSinceLastTrigger)

\* the most recently issued request failed after an overlapping earlier
\* request had succeeded: loading is false
C16_Witness ==
    /\ mounted
    /\ Outstanding = {}
    /\ Last(reqs).pc = "failed"
    /\ Last(reqs).overwritten
    /\ SuccessSinceLastTrigger
    /\ ~loading

(* C17: under fairness (the mount effect runs, every request settles) and  *)
(* with finitely many manual triggers, eventually and from then on nothing *)
(* is outstanding and: if no issued request failed, loading is false and   *)
(* image is the image of the last response processed; if no request        *)
(* succeeded after the final trigger (the last to resolve failed), loading *)
(* is true, forever.                                                       *)
C17_EventualLoadingFlag ==
    <>[](/\ mounted
         /\ Outstanding = {}
         /\ Failed = {} =>
               /\ ~loading
               /\ succeeded # <<>>
               /\ image = reqs[Last(succeeded)].body.image
         /\ ~SuccessSinceLastTrigger => loading)

\* every issued request resolved successfully, overlapping ones included
C17_Witness ==
    /\ Len(succeeded) >= 3
    /\ Len(succeeded) = Len(reqs)
    /\ Outstanding = {}
    /\ Failed = {}
    /\ ~loading
    /\ image = reqs[Last(succeeded)].body.image

====
